---- MODULE Spec2Model ----
(***************************************************************************)
(* The bencode codec of torrent-client (src/src/bencode.rs): decoding a    *)
(* metainfo byte buffer into Bencode { announce, info } and re-encoding    *)
(* the Info record for the info hash.                                      *)
(*                                                                         *)
(* A byte is a one-character string ("FF" stands for the byte 0xFF, which  *)
(* is never valid UTF-8).  A byte string is a sequence of bytes.  A u64 is *)
(* the sequence of its decimal digits as numbers 0..9, most significant    *)
(* first, so that the full 64-bit range is kept; the integer text of the   *)
(* byte stream is a sequence of digit bytes.                               *)
(***************************************************************************)
EXTENDS Integers, Sequences, FiniteSets, TLC

\* ------------------------------------------------------------------ bounds

\* The longest `files` list of a generated metainfo file.
MaxFiles == 2

\* ------------------------------------------------------------------- bytes

\* The bytes that occur, in ascending byte value (the order of &[u8]).
ByteOrder ==
    << " ", "+", "-", "0", "1", "2", "3", "4", "5", "6", "7", "8", "9", ":",
       "a", "b", "c", "d", "e", "f", "g", "h", "i", "l", "m", "n", "o", "p",
       "r", "s", "t", "u", "v", "x", "FF" >>

Ord(c) == CHOOSE i \in 1..Len(ByteOrder) : ByteOrder[i] = c

DigitBytes == << "0", "1", "2", "3", "4", "5", "6", "7", "8", "9" >>

IsDigit(c) == \E i \in 1..10 : DigitBytes[i] = c

DigitVal(c) == (CHOOSE i \in 1..10 : DigitBytes[i] = c) - 1

\* Lexicographic order of byte strings (Ord for &[u8]): a < b.
RECURSIVE BytesLess(_, _)
BytesLess(a, b) ==
    IF b = << >> THEN FALSE
    ELSE IF a = << >> THEN TRUE
    ELSE IF Head(a) # Head(b) THEN Ord(Head(a)) < Ord(Head(b))
    ELSE BytesLess(Tail(a), Tail(b))

\* std::str::from_utf8 succeeds: no byte of the string is invalid.
Utf8Valid(bytes) == \A i \in 1..Len(bytes) : bytes[i] # "FF"

\* ------------------------------------------------------------- u64 values

U64_MAX == << 1, 8, 4, 4, 6, 7, 4, 4, 0, 7, 3, 7, 0, 9, 5, 5, 1, 6, 1, 5 >>

RECURSIVE DigitsLeq(_, _)
DigitsLeq(a, b) ==
    IF a = << >> THEN TRUE
    ELSE IF Head(a) # Head(b) THEN Head(a) < Head(b)
    ELSE DigitsLeq(Tail(a), Tail(b))

RECURSIVE StripZeros(_)
StripZeros(ds) ==
    IF Len(ds) > 1 /\ Head(ds) = 0 THEN StripZeros(Tail(ds)) ELSE ds

\* str::parse::<u64>: an optional '+', then one or more digits, the value
\* within 64 bits.  [ok, v].
parse_u64(text) ==
    LET body == IF text # << >> /\ Head(text) = "+" THEN Tail(text) ELSE text
    IN  IF body = << >> \/ \E i \in 1..Len(body) : ~IsDigit(body[i])
        THEN [ok |-> FALSE, v |-> << >>]
        ELSE LET ds == StripZeros([i \in 1..Len(body) |-> DigitVal(body[i])])
             IN  IF Len(ds) < Len(U64_MAX)
                    \/ (Len(ds) = Len(U64_MAX) /\ DigitsLeq(ds, U64_MAX))
                 THEN [ok |-> TRUE, v |-> ds]
                 ELSE [ok |-> FALSE, v |-> << >>]

\* u64's decimal text, as the encoder writes it.
u64_to_bytes(v) == [i \in 1..Len(v) |-> DigitBytes[v[i] + 1]]

\* usize's decimal text (a string's length prefix).
RECURSIVE usize_to_bytes(_)
usize_to_bytes(n) ==
    IF n < 10 THEN << DigitBytes[n + 1] >>
    ELSE usize_to_bytes(n \div 10) \o << DigitBytes[(n % 10) + 1] >>

\* usize::from_str_radix of a length prefix of at most 9 digits.
RECURSIVE usize_from_bytes(_)
usize_from_bytes(text) ==
    IF text = << >> THEN 0
    ELSE usize_from_bytes(SubSeq(text, 1, Len(text) - 1)) * 10
         + DigitVal(text[Len(text)])

\* ------------------------------------------------- bendy: the byte decoder

(***************************************************************************)
(* bendy::decoding::Decoder, as the code drives it.  An Object is          *)
(*   [kind  : "Int" | "Str" | "List" | "Dict" | "None",                     *)
(*    bytes : the integer's text or the string's bytes,                    *)
(*    items : a list's elements, or a dictionary's <<key, value>> pairs,   *)
(*    err   : "" or the error the decoder raises after the last item].     *)
(* The decoder is lazy: a list or dictionary is handed to the code before  *)
(* its content is scanned, so items holds what the decoder yields before   *)
(* it fails and err what next_object / next_pair returns then.             *)
(***************************************************************************)
NoObj == [kind |-> "None", bytes |-> << >>, items |-> << >>, err |-> ""]

IntObj(text) == [kind |-> "Int", bytes |-> text, items |-> << >>, err |-> ""]

StrObj(bytes) == [kind |-> "Str", bytes |-> bytes, items |-> << >>, err |-> ""]

ListObj(items, err) == [kind |-> "List", bytes |-> << >>, items |-> items, err |-> err]

DictObj(pairs, err) == [kind |-> "Dict", bytes |-> << >>, items |-> pairs, err |-> err]

\* Decoder::take_int: the integer grammar ('-'? [1-9][0-9]* | 0) up to the
\* terminator; state is "Start", "Sign", "Zero" or "Digits".
RECURSIVE take_int_scan(_, _, _, _, _)
take_int_scan(src, start, pos, state, term) ==
    IF pos > Len(src)
    THEN [err |-> "UnexpectedEof", text |-> << >>, next |-> pos]
    ELSE LET c == src[pos]
             bad == [err |-> "UnexpectedToken", text |-> << >>, next |-> pos]
             done == [err |-> "", text |-> SubSeq(src, start, pos - 1), next |-> pos + 1]
         IN  CASE state = "Start" ->
                    IF c = "-" THEN take_int_scan(src, start, pos + 1, "Sign", term)
                    ELSE IF c = "0" THEN take_int_scan(src, start, pos + 1, "Zero", term)
                    ELSE IF IsDigit(c) THEN take_int_scan(src, start, pos + 1, "Digits", term)
                    ELSE bad
               [] state = "Zero" -> IF c = term THEN done ELSE bad
               [] state = "Sign" ->
                    IF IsDigit(c) /\ c # "0"
                    THEN take_int_scan(src, start, pos + 1, "Digits", term)
                    ELSE bad
               [] OTHER ->
                    IF IsDigit(c) THEN take_int_scan(src, start, pos + 1, "Digits", term)
                    ELSE IF c = term THEN done
                    ELSE bad

take_int(src, pos, term) == take_int_scan(src, pos, pos, "Start", term)

\* A token or object the decoder could not deliver.
Fail(err, next) == [obj |-> NoObj, next |-> next, err |-> err]

\* Token::Num of a scanned integer.
int_token(t) ==
    IF t.err # "" THEN Fail(t.err, t.next)
    ELSE [obj |-> IntObj(t.text), next |-> t.next, err |-> ""]

\* take_chunk(len): the n bytes from offset start.
take_chunk(src, start, n) ==
    IF start + n - 1 > Len(src) THEN Fail("UnexpectedEof", start)
    ELSE [obj |-> StrObj(SubSeq(src, start, start + n - 1)), next |-> start + n, err |-> ""]

\* Token::String after its scanned length prefix (a prefix of more than 9
\* digits is longer than any buffer).
str_token(src, t) ==
    IF t.err # "" THEN Fail(t.err, t.next)
    ELSE IF Len(t.text) > 9 THEN Fail("UnexpectedEof", t.next)
    ELSE take_chunk(src, t.next, usize_from_bytes(t.text))

RECURSIVE next_object(_, _)
RECURSIVE list_items(_, _, _)
RECURSIVE list_after(_, _, _)
RECURSIVE dict_pairs(_, _, _, _)
RECURSIVE dict_key(_, _, _, _)
RECURSIVE dict_value(_, _, _, _)

\* Decoder::next_object at offset pos: [obj, next, err].
next_object(src, pos) ==
    IF pos > Len(src) THEN Fail("UnexpectedEof", pos)
    ELSE CASE src[pos] = "i" -> int_token(take_int(src, pos + 1, "e"))
           [] IsDigit(src[pos]) -> str_token(src, take_int(src, pos, ":"))
           [] src[pos] = "l" -> list_items(src, pos + 1, << >>)
           [] src[pos] = "d" -> dict_pairs(src, pos + 1, << >>, << >>)
           [] src[pos] = "e" -> Fail("InvalidState", pos)
           [] OTHER -> Fail("UnexpectedToken", pos)

\* ListDecoder::next_object until the list's end or the first error.
list_items(src, pos, items) ==
    IF pos > Len(src)
    THEN [obj |-> ListObj(items, "UnexpectedEof"), next |-> pos, err |-> "UnexpectedEof"]
    ELSE IF src[pos] = "e"
    THEN [obj |-> ListObj(items, ""), next |-> pos + 1, err |-> ""]
    ELSE list_after(src, items, next_object(src, pos))

\* The list after the decoder scanned its next item r.
list_after(src, items, r) ==
    IF r.err # ""
    THEN [obj |-> ListObj(IF r.obj.kind = "None" THEN items ELSE Append(items, r.obj), r.err),
          next |-> r.next, err |-> r.err]
    ELSE list_items(src, r.next, Append(items, r.obj))

\* DictDecoder::next_pair until the dictionary's end or the first error; the
\* keys must be strings in strictly ascending order (last is << >> or
\* <<the previous key>>).
dict_pairs(src, pos, pairs, last) ==
    IF pos > Len(src)
    THEN [obj |-> DictObj(pairs, "UnexpectedEof"), next |-> pos, err |-> "UnexpectedEof"]
    ELSE IF src[pos] = "e"
    THEN [obj |-> DictObj(pairs, ""), next |-> pos + 1, err |-> ""]
    ELSE IF src[pos] \in {"i", "l", "d"}
    THEN [obj |-> DictObj(pairs, "InvalidState"), next |-> pos, err |-> "InvalidState"]
    ELSE dict_key(src, pairs, last, next_object(src, pos))

\* The dictionary after the decoder scanned the key token k.
dict_key(src, pairs, last, k) ==
    IF k.err # ""
    THEN [obj |-> DictObj(pairs, k.err), next |-> k.next, err |-> k.err]
    ELSE IF last # << >> /\ ~BytesLess(last[1], k.obj.bytes)
    THEN [obj |-> DictObj(pairs, "UnsortedKeys"), next |-> k.next, err |-> "UnsortedKeys"]
    ELSE dict_value(src, pairs, k.obj.bytes, next_object(src, k.next))

\* The dictionary after the decoder scanned the value v of key.
dict_value(src, pairs, key, v) ==
    IF v.err # ""
    THEN [obj |-> DictObj(IF v.obj.kind = "None" THEN pairs
                          ELSE Append(pairs, << key, v.obj >>), v.err),
          next |-> v.next, err |-> v.err]
    ELSE dict_pairs(src, v.next, Append(pairs, << key, v.obj >>), << key >>)

\* ----------------------------------------------------- results and options

\* Result<T, DecodeError>, or the panic that ends the call instead.
Ok(v) == [kind |-> "Ok", val |-> v, err |-> "", field |-> << >>]

\* A DecodeError other than MissingField.
Err(e) == [kind |-> "Err", val |-> << >>, err |-> e, field |-> << >>]

\* DecodeError::missing_field(name).
missing_field(name) == [kind |-> "Err", val |-> << >>, err |-> "MissingField", field |-> name]

\* unwrap() of an Err or a None, or panic!(): the call does not return.
Panic(why) == [kind |-> "Panic", val |-> << >>, err |-> why, field |-> << >>]

\* The call has not been made.
NotRun == [kind |-> "NotRun", val |-> << >>, err |-> "", field |-> << >>]

\* Option<T>: None is << >>, Some(x) is << x >>.
None == << >>

Some(x) == << x >>

\* ----------------------------------------------------------- the key names

K_announce == << "a", "n", "n", "o", "u", "n", "c", "e" >>

K_info == << "i", "n", "f", "o" >>

K_length == << "l", "e", "n", "g", "t", "h" >>

K_name == << "n", "a", "m", "e" >>

K_piece_length == << "p", "i", "e", "c", "e", " ", "l", "e", "n", "g", "t", "h" >>

K_pieces == << "p", "i", "e", "c", "e", "s" >>

K_files == << "f", "i", "l", "e", "s" >>

K_path == << "p", "a", "t", "h" >>

\* The names the missing_field errors carry.
F_announce == K_announce

F_info == K_info

F_name == K_name

F_piece_length == << "p", "i", "e", "c", "e", "_", "l", "e", "n", "g", "t", "h" >>

F_pieces == K_pieces

F_length == K_length

F_path == K_path

\* ------------------------------------------- bendy: typed access to Objects

\* Object::try_into_integer: the integer's text.
try_into_integer(object) ==
    IF object.kind = "Int" THEN Ok(object.bytes) ELSE Err("UnexpectedToken")

\* AsString::decode_bencode_object: the raw bytes of a byte string.
AsString_decode_bencode_object(object) ==
    IF object.kind = "Str" THEN Ok(object.bytes) ELSE Err("UnexpectedToken")

\* String::decode_bencode_object: a byte string that is valid UTF-8.
String_decode_bencode_object(object) ==
    IF object.kind # "Str" THEN Err("UnexpectedToken")
    ELSE IF ~Utf8Valid(object.bytes) THEN Err("MalformedContent")
    ELSE Ok(object.bytes)

\* In a decoding loop: the accumulator after the decoded field r, which is
\* stored under name, or ends the loop when it is an error or a panic.
store(acc, name, r) ==
    IF r.kind # "Ok" THEN [acc EXCEPT !.out = r] ELSE [acc EXCEPT ![name] = r.val]

\* .map(Some) of a decoded value.
map_Some(r) == IF r.kind # "Ok" THEN r ELSE [r EXCEPT !.val = Some(r.val)]

\* The `?` after a loop: the decoder's error once the items are consumed.
end_of(object, r) == IF object.err # "" THEN Err(object.err) ELSE r

\* The next string of a list, decoded and collected.
push_string(items, item) ==
    IF item.kind # "Ok" THEN item ELSE Ok(Append(items, item.val))

\* Vec::<String>::decode_bencode_object: the list's strings, in order.
RECURSIVE VecString_scan(_, _, _)
VecString_scan(object, i, acc) ==
    IF acc.out.kind # "Running" THEN acc.out
    ELSE IF i > Len(object.items) THEN end_of(object, Ok(acc.items))
    ELSE VecString_scan(object, i + 1,
                        store(acc, "items",
                              push_string(acc.items,
                                          String_decode_bencode_object(object.items[i]))))

Running == [kind |-> "Running", val |-> << >>, err |-> "", field |-> << >>]

VecString_decode_bencode_object(object) ==
    IF object.kind # "List" THEN Err("UnexpectedToken")
    ELSE VecString_scan(object, 1, [items |-> << >>, out |-> Running])

\* value.parse::<u64>().unwrap() of an integer's text t.
parse_unwrap(t) ==
    IF t.kind # "Ok" THEN t
    ELSE IF parse_u64(t.val).ok THEN Ok(Some(parse_u64(t.val).v))
    ELSE Panic("ParseIntError")

\* value.try_into_integer().map(|value| value.parse::<u64>().unwrap()).map(Some)?
\* : Some(u64), the decoder's error, or the panic of unwrap.
integer_field(value) == parse_unwrap(try_into_integer(value))

\* ------------------------------------------------------------ File: decode

\* One turn of the match in File::decode_bencode_object.
File_pair(acc, key, value) ==
    CASE key = K_length -> store(acc, "length", integer_field(value))
      [] key = K_path -> store(acc, "path", map_Some(VecString_decode_bencode_object(value)))
      [] OTHER -> acc

\* The while-let loop of File::decode_bencode_object from pair i on; acc is
\* [length, path, out], out the early return (or Running).
RECURSIVE File_pairs(_, _, _)
File_pairs(pairs, i, acc) ==
    IF i > Len(pairs) \/ acc.out.kind # "Running" THEN acc
    ELSE File_pairs(pairs, i + 1, File_pair(acc, pairs[i][1], pairs[i][2]))

\* The checks after the loop and the construction of the File.
File_finish(object, acc) ==
    IF acc.out.kind # "Running" THEN acc.out
    ELSE IF object.err # "" THEN Err(object.err)
    ELSE IF acc.length = None THEN missing_field(F_length)
    ELSE IF acc.path = None THEN missing_field(F_path)
    ELSE Ok([length |-> acc.length[1], path |-> acc.path[1]])

File_decode_bencode_object(object) ==
    IF object.kind # "Dict" THEN Err("UnexpectedToken")
    ELSE File_finish(object,
                     File_pairs(object.items, 1,
                                [length |-> None, path |-> None, out |-> Running]))

\* ------------------------------------------------------------ Info: decode

\* files.insert(0, file) in place of push.
files_push_Front(files, file) == << file >> \o files

\* files.push(file).
files_push(files, file) == Append(files, file)

\* let file = File::decode_bencode_object(item)?; files.push(file);
push_decoded(files, file) ==
    IF file.kind # "Ok" THEN file ELSE Ok(files_push(files, file.val))

\* The inner loop over the `files` list: every item decoded and pushed.
RECURSIVE Info_files(_, _, _)
Info_files(object, i, acc) ==
    IF acc.out.kind # "Running" THEN acc.out
    ELSE IF i > Len(object.items) THEN end_of(object, Ok(acc.files))
    ELSE Info_files(object, i + 1,
                    store(acc, "files",
                          push_decoded(acc.files,
                                       File_decode_bencode_object(object.items[i]))))

\* value.try_into_list()? and the loop over its items.
Info_files_field(value, files) ==
    IF value.kind # "List" THEN Err("UnexpectedToken")
    ELSE Info_files(value, 1, [files |-> files, out |-> Running])

\* One turn of the match in Info::decode_bencode_object.
Info_pair(acc, key, value) ==
    CASE key = K_length -> store(acc, "length", integer_field(value))
      [] key = K_name -> store(acc, "name", map_Some(String_decode_bencode_object(value)))
      [] key = K_piece_length -> store(acc, "piece_length", integer_field(value))
      [] key = K_pieces ->
            store(acc, "pieces", map_Some(AsString_decode_bencode_object(value)))
      [] key = K_files -> store(acc, "files", Info_files_field(value, acc.files))
      [] OTHER -> acc

\* The while-let loop of Info::decode_bencode_object from pair i on; acc is
\* [length, name, piece_length, pieces, files, out].
RECURSIVE Info_pairs(_, _, _)
Info_pairs(pairs, i, acc) ==
    IF i > Len(pairs) \/ acc.out.kind # "Running" THEN acc
    ELSE Info_pairs(pairs, i + 1, Info_pair(acc, pairs[i][1], pairs[i][2]))

\* Files: Single(u64) or Multiple(Vec<File>).
Single(length) == [variant |-> "Single", length |-> length, files |-> << >>]

Multiple(files) == [variant |-> "Multiple", length |-> << >>, files |-> files]

\* The layout decided by the presence of `length` first.
Info_layout_LengthWins(files, length) ==
    IF length # None THEN Ok(Single(length[1]))
    ELSE IF files = << >> THEN Panic("unwrap on None")
    ELSE Ok(Multiple(files))

\* if files.is_empty() { Files::Single(length.unwrap()) } else { Files::Multiple(files) }
Info_layout(files, length) ==
    IF files = << >>
    THEN IF length = None THEN Panic("unwrap on None") ELSE Ok(Single(length[1]))
    ELSE Ok(Multiple(files))

\* Ok(Info { name, piece_length, files, pieces }), unless files panicked.
Info_new(name, piece_length, files, pieces) ==
    IF files.kind # "Ok" THEN files
    ELSE Ok([name |-> name, piece_length |-> piece_length, files |-> files.val,
             pieces |-> pieces])

\* The checks with pieces.unwrap_or_default() in place of the error.
Info_finish_DefaultPieces(acc) ==
    IF acc.name = None THEN missing_field(F_name)
    ELSE IF acc.piece_length = None THEN missing_field(F_piece_length)
    ELSE Info_new(acc.name[1], acc.piece_length[1], Info_layout(acc.files, acc.length),
                  IF acc.pieces = None THEN << >> ELSE acc.pieces[1])

\* The checks after the loop and the construction of the Info.
Info_finish(acc) ==
    IF acc.name = None THEN missing_field(F_name)
    ELSE IF acc.piece_length = None THEN missing_field(F_piece_length)
    ELSE IF acc.pieces = None THEN missing_field(F_pieces)
    ELSE Info_new(acc.name[1], acc.piece_length[1],
                  Info_layout(acc.files, acc.length), acc.pieces[1])

\* The loop's early return, the decoder's error at the dictionary's end, or
\* the checks.
Info_after_loop(object, acc) ==
    IF acc.out.kind # "Running" THEN acc.out
    ELSE IF object.err # "" THEN Err(object.err)
    ELSE Info_finish(acc)

Info_decode_bencode_object(object) ==
    IF object.kind # "Dict" THEN Err("UnexpectedToken")
    ELSE Info_after_loop(object,
                         Info_pairs(object.items, 1,
                                    [length |-> None, name |-> None, piece_length |-> None,
                                     pieces |-> None, files |-> << >>, out |-> Running]))

\* --------------------------------------------------------- Bencode: decode

\* One turn of the match in Bencode::decode_bencode_object.
Bencode_pair(acc, key, value) ==
    CASE key = K_announce ->
            store(acc, "announce", map_Some(String_decode_bencode_object(value)))
      [] key = K_info -> store(acc, "info", map_Some(Info_decode_bencode_object(value)))
      [] OTHER -> acc

\* The while-let loop of Bencode::decode_bencode_object; acc is
\* [announce, info, out].
RECURSIVE Bencode_pairs(_, _, _)
Bencode_pairs(pairs, i, acc) ==
    IF i > Len(pairs) \/ acc.out.kind # "Running" THEN acc
    ELSE Bencode_pairs(pairs, i + 1, Bencode_pair(acc, pairs[i][1], pairs[i][2]))

\* The checks after the loop and the construction of the Bencode.
Bencode_finish(object, acc) ==
    IF acc.out.kind # "Running" THEN acc.out
    ELSE IF object.err # "" THEN Err(object.err)
    ELSE IF acc.announce = None THEN missing_field(F_announce)
    ELSE IF acc.info = None THEN missing_field(F_info)
    ELSE Ok([announce |-> acc.announce[1], info |-> acc.info[1]])

Bencode_decode_bencode_object(object) ==
    IF object.kind # "Dict" THEN Err("UnexpectedToken")
    ELSE Bencode_finish(object,
                        Bencode_pairs(object.items, 1,
                                      [announce |-> None, info |-> None, out |-> Running]))

\* Decoder::new(bytes).next_object(): the first object of the buffer, or the
\* error of a leaf that does not tokenize.
first_object(r) ==
    IF r.obj.kind = "None" THEN [object |-> NoObj, err |-> r.err]
    ELSE [object |-> r.obj, err |-> ""]

from_bencode_object(input) == first_object(next_object(input, 1))

\* FromBencode::from_bencode for Bencode.
Bencode_decode_first(r) ==
    IF r.err # "" THEN Err(r.err) ELSE Bencode_decode_bencode_object(r.object)

Bencode_from_bencode(input) == Bencode_decode_first(from_bencode_object(input))

\* .unwrap_or_else(|err| panic!("Error parsing bencode: {:?}", err)).
unwrap_or_panic(r) == IF r.kind = "Err" THEN Panic("Error parsing bencode") ELSE r

\* Bencode::build.
Bencode_build(input) == unwrap_or_panic(Bencode_from_bencode(input))

\* ------------------------------------------------- bendy: the byte encoder

(***************************************************************************)
(* An encoded item is [err, bytes, depth]: the error the encoder returns   *)
(* ("" for none), the bytes written and the nesting depth reached.         *)
(***************************************************************************)
RECURSIVE Concat(_)
Concat(seqs) == IF seqs = << >> THEN << >> ELSE Head(seqs) \o Concat(Tail(seqs))

MaxDepthOf(items) ==
    IF items = << >> THEN 0
    ELSE CHOOSE d \in {items[i].depth : i \in 1..Len(items)} :
            \A j \in 1..Len(items) : items[j].depth <= d

FirstErr(items) ==
    IF \A i \in 1..Len(items) : items[i].err = "" THEN ""
    ELSE LET k == CHOOSE i \in 1..Len(items) :
                      /\ items[i].err # ""
                      /\ \A j \in 1..(i - 1) : items[j].err = ""
         IN  items[k].err

\* u64::encode: i<decimal>e.
emit_int(v) ==
    [err |-> "", bytes |-> << "i" >> \o u64_to_bytes(v) \o << "e" >>, depth |-> 0]

\* String::encode and AsString::encode: <length>:<bytes>.
emit_bytes(b) ==
    [err |-> "", bytes |-> usize_to_bytes(Len(b)) \o << ":" >> \o b, depth |-> 0]

\* Vec<T>::encode: l<items>e, the items in order.
emit_list(items) ==
    [err |-> FirstErr(items),
     bytes |-> << "l" >> \o Concat([i \in 1..Len(items) |-> items[i].bytes]) \o << "e" >>,
     depth |-> 1 + MaxDepthOf(items)]

\* SingleItemEncoder::emit_dict with one emit_pair per <<key, item>>: the
\* keys written in the order given, which must be strictly ascending.
KeysAscending(pairs) ==
    \A i \in 1..(Len(pairs) - 1) : BytesLess(pairs[i][1], pairs[i + 1][1])

Values(pairs) == [i \in 1..Len(pairs) |-> pairs[i][2]]

emit_dict(pairs) ==
    [err |-> IF ~KeysAscending(pairs) THEN "UnsortedKeys" ELSE FirstErr(Values(pairs)),
     bytes |-> << "d" >>
               \o Concat([i \in 1..Len(pairs) |->
                             emit_bytes(pairs[i][1]).bytes \o pairs[i][2].bytes])
               \o << "e" >>,
     depth |-> 1 + MaxDepthOf(Values(pairs))]

\* ---------------------------------------------------- File, Info: encode

MAX_DEPTH == 5

\* File::encode writing only the first segment of the path.
File_emit_pairs_FirstSegment(file) ==
    << << K_length, emit_int(file.length) >>,
       << K_path, emit_list(<< emit_bytes(file.path[1]) >>) >> >>

\* The emit_pair calls of File::encode, in order.
File_emit_pairs(file) ==
    << << K_length, emit_int(file.length) >>,
       << K_path, emit_list([i \in 1..Len(file.path) |-> emit_bytes(file.path[i])]) >> >>

File_encode(file) == emit_dict(File_emit_pairs(file))

\* Info::encode with `piece length` emitted before `name`.
Info_emit_pairs_Swapped(info) ==
    << IF info.files.variant = "Single"
       THEN << K_length, emit_int(info.files.length) >>
       ELSE << K_files,
               emit_list([i \in 1..Len(info.files.files) |->
                             File_encode(info.files.files[i])]) >>,
       << K_piece_length, emit_int(info.piece_length) >>,
       << K_name, emit_bytes(info.name) >>,
       << K_pieces, emit_bytes(info.pieces) >> >>

\* The emit_pair calls of Info::encode, in order.
Info_emit_pairs(info) ==
    << IF info.files.variant = "Single"
       THEN << K_length, emit_int(info.files.length) >>
       ELSE << K_files,
               emit_list([i \in 1..Len(info.files.files) |->
                             File_encode(info.files.files[i])]) >>,
       << K_name, emit_bytes(info.name) >>,
       << K_piece_length, emit_int(info.piece_length) >>,
       << K_pieces, emit_bytes(info.pieces) >> >>

Info_encode(info) == emit_dict(Info_emit_pairs(info))

\* ToBencode::to_bencode for Info: an encoder limited to Info::MAX_DEPTH.
encoder_result(e) ==
    IF e.err # "" THEN Err(e.err)
    ELSE IF e.depth > MAX_DEPTH THEN Err("NestingTooDeep")
    ELSE Ok(e.bytes)

Info_to_bencode(info) == encoder_result(Info_encode(info))

\* Bencode::info_hash: the digest of the encoded info.  SHA-1 and the hex
\* formatting are not modelled: the value kept is the byte sequence hashed.
hash_or_panic(bencoded_info) ==
    IF bencoded_info.kind = "Err" THEN Panic("Error encoding info") ELSE bencoded_info

Bencode_info_hash(self) == hash_or_panic(Info_to_bencode(self.info))

\* ------------------------------------------------- the metainfo files read

(***************************************************************************)
(* The byte buffers handed to Bencode::build.  A file is described by what *)
(* its author put in the `info` dictionary: src is                         *)
(*   [length, files, name, piece_length, pieces : None or Some(raw value), *)
(*    variant : how the file is laid out],                                *)
(* and the buffer is that description serialized as written, with no       *)
(* validation: an integer's text may be negative, too wide or not          *)
(* canonical, a string may not be UTF-8, `pieces` may have any length.     *)
(***************************************************************************)
T_7 == << "7" >>

T_16 == << "1", "6" >>

T_neg == << "-", "1" >>

T_lead0 == << "0", "1" >>

\* 2^64 - 1 and 2^64.
T_max == u64_to_bytes(U64_MAX)

T_over == SubSeq(T_max, 1, Len(T_max) - 1) \o << "6" >>

LengthChoices == {None, Some(T_7), Some(T_neg), Some(T_lead0), Some(T_max), Some(T_over)}

PieceLengthChoices == {None, Some(T_16), Some(T_over)}

NameChoices == {None, Some(<< "a", "b" >>), Some(<< "a", "FF" >>)}

PiecesChoices == {None, Some([i \in 1..20 |-> "x"]), Some(<< "x", "x", "x" >>)}

FileChoices ==
    { [length |-> << "3" >>, path |-> << << "a" >> >>],
      [length |-> << "1", "2" >>, path |-> << << "b" >>, << "c" >> >>],
      [length |-> << "-", "2" >>, path |-> << << "a" >> >>] }

FilesChoices ==
    {None} \cup {Some(fs) : fs \in UNION {[1..n -> FileChoices] : n \in 0..MaxFiles}}

\* "plain": the keys in ascending order; "extra": plus a key the decoder
\* does not know; "swapped": `name` written first; "cut": the buffer ends
\* before the two closing 'e'.
Variants == {"plain", "extra", "swapped", "cut"}

K_private == << "p", "r", "i", "v", "a", "t", "e" >>

Sources ==
    [length : LengthChoices, files : FilesChoices, name : NameChoices,
     piece_length : PieceLengthChoices, pieces : PiecesChoices, variant : Variants]

\* The bytes of a value tree, written as it stands.
RECURSIVE RawEncode(_)
RawEncode(obj) ==
    CASE obj.kind = "Int" -> << "i" >> \o obj.bytes \o << "e" >>
      [] obj.kind = "Str" -> usize_to_bytes(Len(obj.bytes)) \o << ":" >> \o obj.bytes
      [] obj.kind = "List" ->
            << "l" >> \o Concat([i \in 1..Len(obj.items) |-> RawEncode(obj.items[i])])
            \o << "e" >>
      [] OTHER ->
            << "d" >>
            \o Concat([i \in 1..Len(obj.items) |->
                          RawEncode(StrObj(obj.items[i][1])) \o RawEncode(obj.items[i][2])])
            \o << "e" >>

FileTree(f) ==
    DictObj(<< << K_length, IntObj(f.length) >>,
               << K_path, ListObj([i \in 1..Len(f.path) |-> StrObj(f.path[i])], "") >> >>, "")

\* << <<key, value>> >> when the field is written, << >> when it is not.
Field(key, opt, value) == IF opt = None THEN << >> ELSE << << key, value >> >>

InfoTree(s) ==
    LET fl == Field(K_files, s.files,
                    ListObj([i \in 1..Len(s.files[1]) |-> FileTree(s.files[1][i])], ""))
        ln == Field(K_length, s.length, IntObj(s.length[1]))
        nm == Field(K_name, s.name, StrObj(s.name[1]))
        pl == Field(K_piece_length, s.piece_length, IntObj(s.piece_length[1]))
        ps == Field(K_pieces, s.pieces, StrObj(s.pieces[1]))
        xt == IF s.variant = "extra" THEN << << K_private, IntObj(<< "1" >>) >> >> ELSE << >>
    IN  DictObj(IF s.variant = "swapped"
                THEN nm \o fl \o ln \o pl \o ps
                ELSE fl \o ln \o nm \o pl \o ps \o xt, "")

\* The bytes of the `info` dictionary in the file.
InfoBytes(s) == RawEncode(InfoTree(s))

MetainfoBytes(s) ==
    LET whole == RawEncode(DictObj(<< << K_announce, StrObj(<< "u" >>) >>,
                                      << K_info, InfoTree(s) >> >>, ""))
    IN  IF s.variant = "cut" THEN SubSeq(whole, 1, Len(whole) - 2) ELSE whole

\* The Object the decoder hands to Info::decode_bencode_object for the
\* `info` key of the buffer.
ValueOf(root, key) ==
    root.items[CHOOSE i \in 1..Len(root.items) : root.items[i][1] = key][2]

InfoObject(bytes) == ValueOf(from_bencode_object(bytes).object, K_info)

\* ------------------------------------------------------- the state machine

VARIABLES
    src,        \* what the file's author wrote (Sources)
    input,      \* the byte buffer
    built,      \* the outcome of Bencode::build(input)
    decoded,    \* the outcome of Info::decode_bencode_object on the info dictionary
    hashed,     \* the outcome of info_hash on the Bencode built
    redecoded   \* the outcome of Info::decode_bencode_object on the encoded info

vars == << src, input, built, decoded, hashed, redecoded >>

Init ==
    /\ src \in Sources
    /\ input = MetainfoBytes(src)
    /\ built = NotRun
    /\ decoded = NotRun
    /\ hashed = NotRun
    /\ redecoded = NotRun

\* Bencode::build(&file_content).
Build ==
    /\ built.kind = "NotRun"
    /\ built' = Bencode_build(input)
    /\ UNCHANGED << src, input, decoded, hashed, redecoded >>

\* Info::decode_bencode_object(value) for the pair (b"info", value).
DecodeInfo ==
    /\ decoded.kind = "NotRun"
    /\ decoded' = Info_decode_bencode_object(InfoObject(input))
    /\ UNCHANGED << src, input, built, hashed, redecoded >>

\* bencode.info_hash() on the value build returned.
InfoHash ==
    /\ built.kind = "Ok"
    /\ hashed.kind = "NotRun"
    /\ hashed' = Bencode_info_hash(built.val)
    /\ UNCHANGED << src, input, built, decoded, redecoded >>

\* Info::decode_bencode_object on the dictionary Info::encode wrote.
ReDecode ==
    /\ hashed.kind = "Ok"
    /\ redecoded.kind = "NotRun"
    /\ redecoded' = Info_decode_bencode_object(from_bencode_object(hashed.val).object)
    /\ UNCHANGED << src, input, built, decoded, hashed >>

Next == Build \/ DecodeInfo \/ InfoHash \/ ReDecode

Spec == Init /\ [][Next]_vars

\* ------------------------------------------------- what the author wrote

\* The integer text is the canonical decimal form of a value below 2^64.
TextIsU64(text) ==
    /\ text # << >>
    /\ \A i \in 1..Len(text) : IsDigit(text[i])
    /\ Len(text) = 1 \/ text[1] # "0"
    /\ \/ Len(text) < 20
       \/ Len(text) = 20 /\ (text = T_max \/ BytesLess(text, T_max))

\* The value such a text denotes.
ValueOfText(text) == [i \in 1..Len(text) |-> DigitVal(text[i])]

\* The file entries the author listed (none when there is no `files` key).
SrcFiles(s) == IF s.files = None THEN << >> ELSE s.files[1]

\* The integer texts of the info dictionary.
SrcIntegers(s) ==
    (IF s.length = None THEN {} ELSE {s.length[1]})
    \cup (IF s.piece_length = None THEN {} ELSE {s.piece_length[1]})
    \cup {SrcFiles(s)[i].length : i \in 1..Len(SrcFiles(s))}

\* The dictionary is well-formed bencode and each entry it has decodes.
SrcEntriesDecode(s) ==
    /\ s.variant \in {"plain", "extra"}
    /\ \A t \in SrcIntegers(s) : TextIsU64(t)
    /\ s.name = None \/ Utf8Valid(s.name[1])

\* The required keys the dictionary lacks, by key name.
SrcMissingKeys(s) ==
    (IF s.name = None THEN {K_name} ELSE {})
    \cup (IF s.piece_length = None THEN {K_piece_length} ELSE {})
    \cup (IF s.pieces = None THEN {K_pieces} ELSE {})

\* --------------------------------------------------------------- the claims

\* C1: whenever build decodes a metainfo file, re-encoding the decoded Info
\* (as info_hash does) gives exactly the bytes of the file's `info`
\* dictionary, also when that dictionary has keys the decoder does not know.
C1_ReencodeIsInfoBytes ==
    hashed.kind = "Ok" => hashed.val = InfoBytes(src)

\* C2: for every input Bencode::build ends with a Metainfo value or a typed
\* decode error; it never panics.
C2_BuildNeverPanics ==
    built.kind \in {"NotRun", "Ok", "Err"}

\* C3: for every Info decoded from a metainfo file, Info::encode succeeds and
\* decoding the dictionary it wrote succeeds and gives an equal Info.
C3_RoundTrip ==
    /\ hashed.kind # "NotRun" => hashed.kind = "Ok"
    /\ redecoded.kind # "NotRun" => /\ redecoded.kind = "Ok"
                                    /\ redecoded.val = built.val.info

C3_Witness ==
    /\ redecoded.kind = "Ok"
    /\ redecoded.val.files.variant = "Multiple"
    /\ \E i \in 1..Len(redecoded.val.files.files) :
          Len(redecoded.val.files.files[i].path) = 2

\* C4 as stated: an info dictionary that lacks `name`, `piece length` or
\* `pieces` (its entries decodable) gives MissingField carrying the key name
\* of a missing field, never an Info.
C4_MissingFieldByKeyName ==
    (decoded.kind # "NotRun" /\ SrcEntriesDecode(src) /\ SrcMissingKeys(src) # {})
        => /\ decoded.kind = "Err"
           /\ decoded.err = "MissingField"
           /\ decoded.field \in SrcMissingKeys(src)

\* C4 as amended: an info dictionary that lacks `name`, `piece length` or
\* `pieces` (its entries decodable) gives MissingField naming a missing
\* field -- `name` and `pieces` by their key, `piece length` as
\* `piece_length` -- never an Info.
C4_MissingFieldNamed ==
    (decoded.kind # "NotRun" /\ SrcEntriesDecode(src) /\ SrcMissingKeys(src) # {})
        => /\ decoded.kind = "Err"
           /\ decoded.err = "MissingField"
           /\ \/ decoded.field = F_name /\ src.name = None
              \/ decoded.field = F_piece_length /\ src.piece_length = None
              \/ decoded.field = F_pieces /\ src.pieces = None

C4_Witness ==
    /\ decoded.kind = "Err"
    /\ decoded.err = "MissingField"
    /\ decoded.field = F_pieces
    /\ SrcEntriesDecode(src)
    /\ src.name # None
    /\ src.length # None

\* C5: an info dictionary (its entries decodable) with no `length` and no
\* non-empty `files` list gives a typed decode error; it gives no Info and
\* does not abort.
C5_NoLengthIsError ==
    (decoded.kind # "NotRun" /\ SrcEntriesDecode(src)
        /\ src.length = None /\ SrcFiles(src) = << >>)
        => decoded.kind = "Err"

\* C6: an integer field that is negative, wider than 64 bits or not
\* canonical makes decoding return a decode error, not a value or a panic.
C6_BadIntegerIsError ==
    (decoded.kind # "NotRun" /\ \E t \in SrcIntegers(src) : ~TextIsU64(t))
        => decoded.kind = "Err"

\* C7: every Info decoded has a `pieces` length that is a multiple of 20, and
\* a `pieces` string of another length (in a dictionary whose entries decode
\* and that has a length or files) is rejected with a decode error.
C7_PiecesMultipleOf20 ==
    /\ decoded.kind = "Ok" => Len(decoded.val.pieces) % 20 = 0
    /\ (decoded.kind # "NotRun" /\ SrcEntriesDecode(src)
           /\ (src.length # None \/ SrcFiles(src) # << >>)
           /\ src.pieces # None /\ Len(src.pieces[1]) % 20 # 0)
          => decoded.kind = "Err"

\* C8: every decoded Info has exactly one layout; with a non-empty `files`
\* list the layout is Multiple with that many entries, whether or not a
\* `length` is present (files wins); with a `length` and no or an empty
\* `files` list it is Single(length).
C8_LayoutExclusive ==
    decoded.kind = "Ok" =>
        LET layout == decoded.val.files
        IN  /\ layout.variant \in {"Single", "Multiple"}
            /\ layout.variant = "Single" => layout.files = << >>
            /\ layout.variant = "Multiple" => layout.length = << >> /\ layout.files # << >>
            /\ SrcFiles(src) # << >> =>
                  /\ layout.variant = "Multiple"
                  /\ Len(layout.files) = Len(SrcFiles(src))
            /\ SrcFiles(src) = << >> =>
                  /\ src.length # None
                  /\ layout.variant = "Single"
                  /\ layout.length = ValueOfText(src.length[1])

C8_Witness ==
    /\ decoded.kind = "Ok"
    /\ src.length # None
    /\ Len(SrcFiles(src)) = 2
    /\ decoded.val.files.variant = "Multiple"

\* The keys of an encoded dictionary, in the order of the byte stream.
KeysOf(object) == [i \in 1..Len(object.items) |-> object.items[i][1]]

\* C9: the encoder writes the keys in strictly ascending byte order, exactly
\* one of `files` / `length`, then `name`, `piece length`, `pieces`; and
\* `length` then `path` in every file record.
C9_KeysAscending ==
    hashed.kind # "NotRun" =>
        /\ hashed.kind = "Ok"
        /\ LET d == next_object(hashed.val, 1)
               keys == KeysOf(d.obj)
           IN  /\ d.err = "" /\ d.next = Len(hashed.val) + 1 /\ d.obj.kind = "Dict"
               /\ keys = << IF built.val.info.files.variant = "Single"
                            THEN K_length ELSE K_files,
                            K_name, K_piece_length, K_pieces >>
               /\ \A i \in 1..(Len(keys) - 1) : BytesLess(keys[i], keys[i + 1])
               /\ built.val.info.files.variant = "Multiple" =>
                     \A i \in 1..Len(d.obj.items[1][2].items) :
                        KeysOf(d.obj.items[1][2].items[i]) = << K_length, K_path >>

C9_Witness ==
    /\ hashed.kind = "Ok"
    /\ built.val.info.files.variant = "Multiple"
    /\ Len(built.val.info.files.files) = 2

\* C10: a multi-file info dictionary decodes to Multiple with one entry per
\* element of the `files` list, in the order of the byte stream, each with
\* its own length and its path segments in order.
C10_FilesInSourceOrder ==
    (decoded.kind = "Ok" /\ SrcFiles(src) # << >>) =>
        decoded.val.files.files =
            [i \in 1..Len(SrcFiles(src)) |->
                [length |-> ValueOfText(SrcFiles(src)[i].length),
                 path |-> SrcFiles(src)[i].path]]

C10_Witness ==
    /\ decoded.kind = "Ok"
    /\ Len(decoded.val.files.files) = 2
    /\ decoded.val.files.files[1] # decoded.val.files.files[2]
    /\ Len(decoded.val.files.files[2].path) = 2


====
